---------------------------- MODULE Spec2Model ----------------------------
(***************************************************************************)
(* Model of src/src/lib.rs of wasm-chess: the static evaluator             *)
(* (piece_score, central_control, position_evaluation), the alpha-beta     *)
(* search (minimax_alpha_beta) run as an explicit call stack, and the      *)
(* move selector (get_best_move_minimax_alpha_beta).                       *)
(*                                                                         *)
(* The `chess` crate (Board, MoveGen, BoardStatus) is an external rules    *)
(* engine.  A position is a record holding what the code reads from a      *)
(* Board: the 64 squares (from which the bitboards are taken), the side to *)
(* move, the status, and, for a position that the search expands, the      *)
(* positions its legal moves lead to, in MoveGen's order.                  *)
(***************************************************************************)
EXTENDS Integers, Sequences, FiniteSets, TLC

(***************************************************************************)
(* Bounds of the model.                                                    *)
(***************************************************************************)
\* Largest search depth passed to get_best_move_minimax_alpha_beta.
MaxDepth == 2
\* Largest number of legal moves of a position inside the search tree.
MaxMoves == 2
\* Largest number of positions, down to the search horizon, that the game
\* tree holds below the position handed to the call.
MaxNodes == 7
\* Largest number of positions, down to the search horizon, of a game tree
\* that minimax_alpha_beta is called on directly in CallSpec.
MaxCallNodes == 4
\* Largest number of plies played in EvalSpec.
MaxPlies == 1

(***************************************************************************)
(* Boards.  Squares are numbered 1..64 in FEN order: a8 = 1, h8 = 8,       *)
(* a1 = 57, h1 = 64.  A board maps each square to a FEN piece letter or    *)
(* "." for an empty square.                                                *)
(***************************************************************************)
Squares == 1..64

Sq(file, rank) == (8 - rank) * 8 + file

Files == <<"a", "b", "c", "d", "e", "f", "g", "h">>
Ranks == <<"1", "2", "3", "4", "5", "6", "7", "8">>

\* Square::E4, Square::D4, Square::E5, Square::D5
E4 == Sq(5, 4)
D4 == Sq(4, 4)
E5 == Sq(5, 5)
D5 == Sq(4, 5)

WhiteLetters == {"P", "N", "B", "R", "Q", "K"}
BlackLetters == {"p", "n", "b", "r", "q", "k"}

Colors == {"White", "Black"}
Statuses == {"Ongoing", "Checkmate", "Stalemate"}

Opposite(color) == IF color = "White" THEN "Black" ELSE "White"

\* Board::color_combined: the bitboard (set of squares) of one colour.
color_combined(pos, color) ==
    {s \in Squares :
        pos.board[s] \in (IF color = "White" THEN WhiteLetters ELSE BlackLetters)}

\* Board::pieces: the bitboard of one piece type, both colours.
pieces(pos, piece) ==
    {s \in Squares :
        pos.board[s] \in
            CASE piece = "Pawn"   -> {"P", "p"}
              [] piece = "Knight" -> {"N", "n"}
              [] piece = "Bishop" -> {"B", "b"}
              [] piece = "Rook"   -> {"R", "r"}
              [] piece = "Queen"  -> {"Q", "q"}
              [] piece = "King"   -> {"K", "k"}}

\* BitBoard::popcnt
popcnt(bb) == Cardinality(bb)

\* BitBoard::from_square
from_square(s) == {s}

(***************************************************************************)
(* The evaluator.                                                          *)
(***************************************************************************)
\* white_score / black_score of piece_score: the value of one side's pieces.
side_score(pos, color) ==
    LET bb == color_combined(pos, color)
    IN  5 * popcnt(bb \cap pieces(pos, "Rook"))
        + popcnt(bb \cap pieces(pos, "Pawn"))
        + 3 * popcnt(bb \cap pieces(pos, "Bishop"))
        + 9 * popcnt(bb \cap pieces(pos, "Queen"))
        + 3 * popcnt(bb \cap pieces(pos, "Knight"))

piece_score(pos) == side_score(pos, "White") - side_score(pos, "Black")

central_control(pos) ==
    LET e4_bb == from_square(E4)
        d4_bb == from_square(D4)
        e5_bb == from_square(E5)
        d5_bb == from_square(D5)
    IN  popcnt(color_combined(pos, "White") \cap e4_bb)
        + popcnt(color_combined(pos, "White") \cap d4_bb)
        + popcnt(color_combined(pos, "White") \cap e5_bb)
        + popcnt(color_combined(pos, "White") \cap d5_bb)
        + -popcnt(color_combined(pos, "Black") \cap e4_bb)
        + -popcnt(color_combined(pos, "Black") \cap d4_bb)
        + -popcnt(color_combined(pos, "Black") \cap e5_bb)
        + -popcnt(color_combined(pos, "Black") \cap d5_bb)

\* A variant of static_score with the material weighted by 100.
static_score_x100(pos) == 100 * piece_score(pos) + central_control(pos)

\* The last line of position_evaluation: the score of an Ongoing position.
static_score(pos) == 10 * piece_score(pos) + central_control(pos)

\* A variant of terminal_score that scores a stalemate as a position.
terminal_score_nostalemate(pos) ==
    IF pos.stm = "White" THEN -10000 ELSE 10000

\* The first branch of position_evaluation: status() != Ongoing.
terminal_score(pos) ==
    IF pos.status = "Stalemate"
    THEN 0
    ELSE IF pos.stm = "White" THEN -10000 ELSE 10000

position_evaluation(pos) ==
    IF pos.status # "Ongoing"
    THEN terminal_score(pos)
    ELSE static_score(pos)

(***************************************************************************)
(* Sample boards.                                                          *)
(***************************************************************************)
\* Board::default(): the starting position.
StartBoard ==
       <<"r", "n", "b", "q", "k", "b", "n", "r">>
    \o <<"p", "p", "p", "p", "p", "p", "p", "p">>
    \o <<".", ".", ".", ".", ".", ".", ".", ".">>
    \o <<".", ".", ".", ".", ".", ".", ".", ".">>
    \o <<".", ".", ".", ".", ".", ".", ".", ".">>
    \o <<".", ".", ".", ".", ".", ".", ".", ".">>
    \o <<"P", "P", "P", "P", "P", "P", "P", "P">>
    \o <<"R", "N", "B", "Q", "K", "B", "N", "R">>

\* The test's r1bqkb1r/pppp1ppp/2n2n2/4p2Q/2B1P3/8/PPPP1PPP/RNB1K1NR.
MateInOneBoard ==
       <<"r", ".", "b", "q", "k", "b", ".", "r">>
    \o <<"p", "p", "p", "p", ".", "p", "p", "p">>
    \o <<".", ".", "n", ".", ".", "n", ".", ".">>
    \o <<".", ".", ".", ".", "p", ".", ".", "Q">>
    \o <<".", ".", "B", ".", "P", ".", ".", ".">>
    \o <<".", ".", ".", ".", ".", ".", ".", ".">>
    \o <<"P", "P", "P", "P", ".", "P", "P", "P">>
    \o <<"R", "N", "B", ".", "K", ".", "N", "R">>

\* The test position after h5 f7 (the queen takes the pawn on f7).
AfterQxf7Board ==
    [MateInOneBoard EXCEPT ![Sq(8, 5)] = ".", ![Sq(6, 7)] = "Q"]

\* The test position with the white queen taken.
QueenDownBoard == [MateInOneBoard EXCEPT ![Sq(8, 5)] = "."]

\* The most material one side can hold by legal play (all eight pawns
\* promoted to queens) against a bare king, the centre held by that side.
WhiteMaxBoard ==
       <<".", ".", ".", ".", ".", ".", ".", "k">>
    \o <<".", ".", ".", ".", ".", ".", ".", ".">>
    \o <<".", ".", "Q", "Q", "Q", ".", ".", ".">>
    \o <<".", ".", "Q", "Q", "Q", ".", ".", ".">>
    \o <<".", ".", "Q", "Q", "Q", ".", ".", ".">>
    \o <<".", ".", ".", ".", ".", ".", ".", ".">>
    \o <<".", ".", ".", ".", ".", ".", ".", ".">>
    \o <<"R", "N", "B", ".", "K", "B", "N", "R">>

BlackMaxBoard ==
       <<"r", "n", "b", ".", "k", "b", "n", "r">>
    \o <<".", ".", ".", ".", ".", ".", ".", ".">>
    \o <<".", ".", ".", ".", ".", ".", ".", ".">>
    \o <<".", ".", "q", "q", "q", ".", ".", ".">>
    \o <<".", ".", "q", "q", "q", ".", ".", ".">>
    \o <<".", ".", "q", "q", "q", ".", ".", ".">>
    \o <<".", ".", ".", ".", ".", ".", ".", ".">>
    \o <<".", ".", ".", ".", ".", ".", ".", "K">>



(***************************************************************************)
(* Positions of the search tree.                                           *)
(***************************************************************************)
\* A stalemate: Black, to move, has only the king on h8.
StalemateBoard ==
       <<".", ".", ".", ".", ".", ".", ".", "k">>
    \o <<".", ".", ".", ".", ".", "K", ".", ".">>
    \o <<".", ".", ".", ".", ".", ".", "Q", ".">>
    \o <<".", ".", ".", ".", ".", ".", ".", ".">>
    \o <<".", ".", ".", ".", ".", ".", ".", ".">>
    \o <<".", ".", ".", ".", ".", ".", ".", ".">>
    \o <<".", ".", ".", ".", ".", ".", ".", ".">>
    \o <<".", ".", ".", ".", ".", ".", ".", ".">>

Node(b, stm, status, kids) ==
    [board |-> b, stm |-> stm, status |-> status, kids |-> kids]

\* The test position with the pawn on f7 taken.
PawnUpBoard == [MateInOneBoard EXCEPT ![Sq(6, 7)] = "."]

\* Boards of the Ongoing positions at the search horizon.
HorizonBoards == {PawnUpBoard, QueenDownBoard}

\* The board seen from the other side: ranks flipped, colours swapped.
Mirror(b) ==
    LET swap == [l \in WhiteLetters \cup BlackLetters \cup {"."} |->
                    CASE l = "P" -> "p" [] l = "N" -> "n" [] l = "B" -> "b"
                      [] l = "R" -> "r" [] l = "Q" -> "q" [] l = "K" -> "k"
                      [] l = "p" -> "P" [] l = "n" -> "N" [] l = "b" -> "B"
                      [] l = "r" -> "R" [] l = "q" -> "Q" [] l = "k" -> "K"
                      [] OTHER -> "."]
    IN  [s \in Squares |-> swap[b[(7 - ((s - 1) \div 8)) * 8 + ((s - 1) % 8) + 1]]]

\* The positions in which the game is over: no legal move for stm, who is
\* checkmated or stalemated.
GameOver(stm) ==
    { Node(IF stm = "Black" THEN AfterQxf7Board ELSE Mirror(AfterQxf7Board),
           stm, "Checkmate", << >>),
      Node(IF stm = "Black" THEN StalemateBoard ELSE Mirror(StalemateBoard),
           stm, "Stalemate", << >>) }

\* The positions a depth-d search can be started on, the side stm to move,
\* that hold n positions in all down to the horizon.  Board::status() is
\* Ongoing exactly when MoveGen::new_legal yields a move, and
\* Board::make_move_new hands the move to the other side.  An Ongoing
\* position at the horizon, whose moves a depth-d search does not enumerate,
\* has one legal move, into a stalemate.  KidsN(d, stm, n, k) are the
\* sequences of k such positions that hold n positions in all.
RECURSIVE Trees(_, _, _), KidsN(_, _, _, _)
Trees(d, stm, n) ==
    IF n = 1
    THEN GameOver(stm) \cup
         (IF d = 0
          THEN {Node(b, stm, "Ongoing",
                     << CHOOSE t \in GameOver(Opposite(stm)) : t.status = "Stalemate" >>) :
                   b \in HorizonBoards}
          ELSE {})
    ELSE IF d = 0
         THEN {}
         ELSE {Node(MateInOneBoard, stm, "Ongoing", ks) :
                  ks \in UNION {KidsN(d - 1, Opposite(stm), n - 1, k) :
                                   k \in 1..MaxMoves}}

KidsN(d, stm, n, k) ==
    IF k = 0
    THEN (IF n = 0 THEN {<< >>} ELSE {})
    ELSE UNION {{<< t >> \o rest : t \in Trees(d, stm, m),
                                  rest \in KidsN(d, stm, n - m, k - 1)} :
                   m \in 1..(n - (k - 1))}

\* Trees, tabulated.
TreeTable ==
    [d \in 0..MaxDepth |->
        [stm \in Colors |-> [n \in 1..MaxNodes |-> Trees(d, stm, n)]]]

\* MoveGen::new_legal(&position) followed by position.make_move_new(move):
\* the positions after the legal moves, in enumeration order.
legal_children(pos) == pos.kids

(***************************************************************************)
(* Moves and their formatting.                                             *)
(***************************************************************************)
Move(src, dst, promo) == [source |-> src, dest |-> dst, promotion |-> promo]

\* Display of a Square: file letter, then rank digit.
SquareName(s) == Files[((s - 1) % 8) + 1] \o Ranks[8 - ((s - 1) \div 8)]

\* A variant of format_best_move that writes the destination first.
format_best_move_reversed(m) == SquareName(m.dest) \o " " \o SquareName(m.source)

format_best_move(m) == SquareName(m.source) \o " " \o SquareName(m.dest)

\* Positions handed to get_best_move_minimax_alpha_beta: the side to move,
\* the status and the legal moves in MoveGen's order.
RootSamples ==
    { [stm |-> "White", status |-> "Ongoing",
       moves |-> << Move(Sq(7, 1), Sq(6, 3), "None"),
                    Move(Sq(3, 4), Sq(6, 7), "None"),
                    Move(Sq(8, 5), Sq(6, 7), "None") >>],
      [stm |-> "Black", status |-> "Ongoing",
       moves |-> << Move(Sq(1, 2), Sq(1, 1), "Queen"),
                    Move(Sq(5, 8), Sq(5, 7), "None") >>],
      [stm |-> "White", status |-> "Ongoing",
       moves |-> << Move(Sq(5, 1), Sq(5, 2), "None") >>],
      [stm |-> "White", status |-> "Checkmate", moves |-> << >>],
      [stm |-> "Black", status |-> "Checkmate", moves |-> << >>],
      [stm |-> "Black", status |-> "Stalemate", moves |-> << >>] }

(***************************************************************************)
(* State.                                                                  *)
(***************************************************************************)
VARIABLES
    root,       \* current_position of get_best_move_minimax_alpha_beta
    depth,      \* its depth argument
    pc,         \* "loop" | "search" | "done" | "panicked" | "direct" | "eval"
    idx,        \* number of candidate moves taken from candidate_moves
    best_move,  \* Option<(ChessMove, i32)>: << >> or << [move, eval] >>
    stack,      \* the active minimax_alpha_beta invocations, innermost last
    ret,        \* the value the last invocation returned, << >> when consumed
    result,     \* the returned String: << >> or << s >>
    call,       \* the arguments of the outermost minimax_alpha_beta call
    hist,       \* per candidate tried: whether it checkmates, and its eval
    nodes,      \* positions the game tree may still hold below the root
    skipped,    \* whether a break has skipped a legal move in the outermost call
    board,      \* EvalSpec: the board being played on
    plies,      \* EvalSpec: material-changing plies played
    evaluated   \* EvalSpec: << >> or << [pos, score] >>, the last evaluation

vars == << root, depth, pc, idx, best_move, stack, ret, result, call, hist,
           nodes, skipped, board, plies, evaluated >>

searchVars == << root, depth, pc, idx, best_move, stack, ret, result, call, hist,
                nodes, skipped >>
evalVars == << board, plies, evaluated >>
topVars == << root, depth, idx, best_move, result, hist, nodes >>

None == << >>
Some(x) == << x >>

Max(a, b) == IF a >= b THEN a ELSE b
Min(a, b) == IF a <= b THEN a ELSE b

(***************************************************************************)
(* minimax_alpha_beta as a call stack.                                     *)
(***************************************************************************)
\* depth - 1 on a u32.  -1 stands for the out-of-range result of 0 - 1
\* (a panic with overflow checks, 2^32 - 1 without).
depth_minus_one(d) == IF d > 0 THEN d - 1 ELSE -1

\* A new invocation: the arguments, and the locals of the branch it takes.
Frame(pos, d, alpha, beta, color) ==
    [pos |-> pos, depth |-> d, alpha |-> alpha, beta |-> beta, color |-> color,
     i |-> 0, broke |-> FALSE,
     tracking |-> IF color = "White" THEN alpha ELSE beta,
     best |-> IF color = "White" THEN -10000 ELSE 10000]

Top == stack[Len(stack)]
Pop == SubSeq(stack, 1, Len(stack) - 1)
ReplaceTop(f) == [stack EXCEPT ![Len(stack)] = f]

\* A variant of is_leaf that forgets the depth test.
is_leaf_nodepth(f) == f.pos.status # "Ongoing"

\* A variant of is_leaf that forgets the status test.
is_leaf_nostatus(f) == f.depth = 0

\* Line 98: (depth == 0) || position.status() != BoardStatus::Ongoing
is_leaf(f) == (f.depth = 0) \/ f.pos.status # "Ongoing"

\* Lines 98-100: return position_evaluation(&position)
BaseCase ==
    /\ stack # << >>
    /\ ret = None
    /\ is_leaf(Top)
    /\ stack' = Pop
    /\ ret' = Some(position_evaluation(Top.pos))
    /\ UNCHANGED << topVars, pc, call, skipped, evalVars >>

\* A variant of white_child_color that keeps maximising one ply deeper.
white_child_color_same == "White"

\* Line 112: the player_color handed to the child of a White invocation.
white_child_color == "Black"

\* Line 130: the player_color handed to the child of a Black invocation.
black_child_color == "White"

\* Lines 106-113 and 120: the White loop takes the next legal move and
\* recurses, or, the moves exhausted or the loop broken, returns max_eval.
WhiteLoop ==
    /\ stack # << >>
    /\ ret = None
    /\ ~is_leaf(Top)
    /\ Top.color = "White"
    /\ LET f == Top
           legal_moves == legal_children(f.pos)
       IN  IF ~f.broke /\ f.i < Len(legal_moves)
           THEN /\ stack' = Append(ReplaceTop([f EXCEPT !.i = f.i + 1]),
                                   Frame(legal_moves[f.i + 1],
                                         depth_minus_one(f.depth),
                                         f.tracking, f.beta, white_child_color))
                /\ ret' = None
                /\ UNCHANGED skipped
           ELSE /\ stack' = Pop
                /\ ret' = Some(f.best)
                /\ skipped' = (skipped \/ f.i < Len(legal_moves))
    /\ UNCHANGED << topVars, pc, call, evalVars >>

\* A variant of white_cutoff with the comparison turned round.
white_cutoff_reversed(beta, tracking_alpha) == tracking_alpha <= beta

\* Line 116: beta <= tracking_alpha
white_cutoff(beta, tracking_alpha) == beta <= tracking_alpha

\* Line 134: tracking_beta <= alpha
black_cutoff(tracking_beta, alpha) == tracking_beta <= alpha

\* Lines 114-118: the child's eval comes back to a White invocation.
WhiteAfter ==
    /\ stack # << >>
    /\ ret # None
    /\ Top.color = "White"
    /\ LET f == Top
           eval == ret[1]
           max_eval == Max(eval, f.best)
           tracking_alpha == Max(f.tracking, eval)
       IN  stack' = ReplaceTop([f EXCEPT !.best = max_eval,
                                         !.tracking = tracking_alpha,
                                         !.broke = white_cutoff(f.beta, tracking_alpha)])
    /\ ret' = None
    /\ UNCHANGED << topVars, pc, call, skipped, evalVars >>

\* Lines 124-131 and 138: the Black loop.
BlackLoop ==
    /\ stack # << >>
    /\ ret = None
    /\ ~is_leaf(Top)
    /\ Top.color # "White"
    /\ LET f == Top
           legal_moves == legal_children(f.pos)
       IN  IF ~f.broke /\ f.i < Len(legal_moves)
           THEN /\ stack' = Append(ReplaceTop([f EXCEPT !.i = f.i + 1]),
                                   Frame(legal_moves[f.i + 1],
                                         depth_minus_one(f.depth),
                                         f.alpha, f.tracking, black_child_color))
                /\ ret' = None
                /\ UNCHANGED skipped
           ELSE /\ stack' = Pop
                /\ ret' = Some(f.best)
                /\ skipped' = (skipped \/ f.i < Len(legal_moves))
    /\ UNCHANGED << topVars, pc, call, evalVars >>

\* Lines 132-136: the child's eval comes back to a Black invocation.
BlackAfter ==
    /\ stack # << >>
    /\ ret # None
    /\ Top.color # "White"
    /\ LET f == Top
           eval == ret[1]
           min_eval == Min(eval, f.best)
           tracking_beta == Min(f.tracking, eval)
       IN  stack' = ReplaceTop([f EXCEPT !.best = min_eval,
                                         !.tracking = tracking_beta,
                                         !.broke = black_cutoff(tracking_beta, f.alpha)])
    /\ ret' = None
    /\ UNCHANGED << topVars, pc, call, skipped, evalVars >>

Search == BaseCase \/ WhiteLoop \/ WhiteAfter \/ BlackLoop \/ BlackAfter


(***************************************************************************)
(* get_best_move_minimax_alpha_beta.                                       *)
(***************************************************************************)
\* A variant of initial_best_move that starts from a default move.
initial_best_move_default == Some([move |-> Move(Sq(1, 1), Sq(1, 1), "None"), eval |-> 0])

\* Line 153: let mut best_move: Option<(ChessMove, i32)> = None
initial_best_move == None

EvalIdle == board = StartBoard /\ plies = 0 /\ evaluated = None

Init ==
    /\ root \in RootSamples
    /\ depth \in 0..MaxDepth
    /\ pc = "loop"
    /\ idx = 0
    /\ best_move = initial_best_move
    /\ stack = << >>
    /\ ret = None
    /\ result = None
    /\ call = None
    /\ hist = << >>
    /\ nodes = MaxNodes
    /\ skipped = FALSE
    /\ EvalIdle

\* MoveGen::new_legal(&current_position)
candidate_moves == root.moves

\* Lines 160-168: the loop takes the next candidate move, makes it, and calls
\* minimax_alpha_beta on the new position with the full window.
Candidate ==
    /\ pc = "loop"
    /\ idx < Len(candidate_moves)
    /\ \E n \in 1..(nodes - (Len(candidate_moves) - idx - 1)) :
          \E new_position \in TreeTable[depth][Opposite(root.stm)][n] :
             LET f == Frame(new_position, depth, -10000, 10000, new_position.stm)
             IN  /\ stack' = << f >>
                 /\ call' = Some([pos |-> f.pos, depth |-> f.depth,
                                  alpha |-> f.alpha, beta |-> f.beta,
                                  color |-> f.color])
                 /\ nodes' = nodes - n
    /\ idx' = idx + 1
    /\ pc' = "search"
    /\ ret' = None
    /\ skipped' = FALSE
    /\ UNCHANGED << root, depth, best_move, result, hist, evalVars >>

\* A variant of replaces that lets an equal score replace the kept move.
replaces_on_tie(side, eval, top_eval) ==
    \/ (side = "White" /\ eval >= top_eval)
    \/ (side = "Black" /\ eval <= top_eval)

\* A variant of replaces that maximises for both sides.
replaces_as_white(side, eval, top_eval) == eval > top_eval

\* Lines 172-173: whether the candidate replaces the best move kept so far.
replaces(side, eval, top_eval) ==
    \/ (side = "White" /\ eval > top_eval)
    \/ (side = "Black" /\ eval < top_eval)

\* Lines 171-179: the eval of the candidate is compared with the best kept.
Update ==
    /\ pc = "search"
    /\ stack = << >>
    /\ ret # None
    /\ LET eval == ret[1]
           candidate_move == candidate_moves[idx]
       IN  /\ best_move' =
                 IF best_move # None
                 THEN IF replaces(root.stm, eval, best_move[1].eval)
                      THEN Some([move |-> candidate_move, eval |-> eval])
                      ELSE best_move
                 ELSE Some([move |-> candidate_move, eval |-> eval])
           /\ hist' = Append(hist, [mates |-> call[1].pos.status = "Checkmate",
                                     eval |-> eval])
    /\ ret' = None
    /\ pc' = "loop"
    /\ UNCHANGED << root, depth, idx, stack, result, call, nodes, skipped,
                    evalVars >>

\* Lines 182-184: best_move.unwrap() panics on None; else the move is
\* formatted and returned.
Finish ==
    /\ pc = "loop"
    /\ idx = Len(candidate_moves)
    /\ IF best_move = None
       THEN /\ pc' = "panicked"
            /\ result' = None
       ELSE /\ pc' = "done"
            /\ result' = Some(format_best_move(best_move[1].move))
    /\ UNCHANGED << root, depth, idx, best_move, stack, ret, call, hist, nodes,
                    skipped, evalVars >>

Next == Candidate \/ Update \/ Finish \/ Search

Spec == Init /\ [][Next]_vars

(***************************************************************************)
(* minimax_alpha_beta called on its own, with any window and either        *)
(* player_color.                                                           *)
(***************************************************************************)
WindowBounds == {-10000, -90, 0, 10, 10000}

InitCall ==
    /\ root = [stm |-> "White", status |-> "Ongoing", moves |-> << >>]
    /\ depth = 0
    /\ pc = "direct"
    /\ idx = 0
    /\ best_move = None
    /\ result = None
    /\ hist = << >>
    /\ nodes = 0
    /\ skipped = FALSE
    /\ ret = None
    /\ \E d \in 0..MaxDepth, side \in Colors, color \in Colors,
          alpha \in WindowBounds, beta \in WindowBounds :
          /\ alpha < beta
          /\ \E n \in 1..MaxCallNodes : \E position \in TreeTable[d][side][n] :
                /\ stack = << Frame(position, d, alpha, beta, color) >>
                /\ call = Some([pos |-> position, depth |-> d, alpha |-> alpha,
                                beta |-> beta, color |-> color])
    /\ EvalIdle

NextCall == BaseCase \/ WhiteLoop \/ WhiteAfter \/ BlackLoop \/ BlackAfter

CallSpec == InitCall /\ [][NextCall]_vars

(***************************************************************************)
(* position_evaluation on boards that play can reach.                      *)
(***************************************************************************)
SearchIdle ==
    /\ root = [stm |-> "White", status |-> "Ongoing", moves |-> << >>]
    /\ depth = 0
    /\ pc = "eval"
    /\ idx = 0
    /\ best_move = None
    /\ stack = << >>
    /\ ret = None
    /\ result = None
    /\ call = None
    /\ hist = << >>
    /\ nodes = 0
    /\ skipped = FALSE

InitEval ==
    /\ SearchIdle
    /\ board \in {StartBoard, MateInOneBoard, WhiteMaxBoard, BlackMaxBoard}
    /\ plies = 0
    /\ evaluated = None

\* A capture takes a piece other than a king off the board.
Capture ==
    /\ plies < MaxPlies
    /\ \E s \in Squares :
          /\ board[s] \notin {".", "K", "k"}
          /\ board' = [board EXCEPT ![s] = "."]
    /\ plies' = plies + 1
    /\ evaluated' = None
    /\ UNCHANGED searchVars

\* A pawn is promoted to a queen, rook, bishop or knight of its colour.
Promote ==
    /\ plies < MaxPlies
    /\ \E s \in Squares :
          \/ /\ board[s] = "P"
             /\ \E l \in {"Q", "R", "B", "N"} : board' = [board EXCEPT ![s] = l]
          \/ /\ board[s] = "p"
             /\ \E l \in {"q", "r", "b", "n"} : board' = [board EXCEPT ![s] = l]
    /\ plies' = plies + 1
    /\ evaluated' = None
    /\ UNCHANGED searchVars

\* A piece moves to an empty centre square.
Centralise ==
    /\ plies < MaxPlies
    /\ \E s \in Squares, c \in {E4, D4, E5, D5} :
          /\ board[s] # "."
          /\ board[c] = "."
          /\ board' = [board EXCEPT ![s] = ".", ![c] = board[s]]
    /\ plies' = plies + 1
    /\ evaluated' = None
    /\ UNCHANGED searchVars

\* position_evaluation(&position): the rules engine gives the side to move
\* and the status of the position.
Evaluate ==
    /\ \E side \in Colors, status \in Statuses :
          LET position == [board |-> board, stm |-> side, status |-> status]
          IN  evaluated' = Some([pos |-> position,
                                 score |-> position_evaluation(position)])
    /\ UNCHANGED << board, plies, searchVars >>

NextEval == Capture \/ Promote \/ Centralise \/ Evaluate

EvalSpec == InitEval /\ [][NextEval]_vars


(***************************************************************************)
(* Properties.                                                             *)
(***************************************************************************)
SetMax(S) == CHOOSE x \in S : \A y \in S : y <= x
SetMin(S) == CHOOSE x \in S : \A y \in S : x <= y

\* Depth-d minimax without any cutoff: the maximum over the children where
\* White is to move, the minimum where Black is to move.
RECURSIVE PlainMinimax(_, _)
PlainMinimax(p, d) ==
    IF d = 0 \/ p.status # "Ongoing"
    THEN position_evaluation(p)
    ELSE LET vals == {PlainMinimax(p.kids[j], d - 1) : j \in 1..Len(p.kids)}
         IN  IF p.stm = "White" THEN SetMax(vals) ELSE SetMin(vals)

\* The outermost minimax_alpha_beta call has returned.
Returned == stack = << >> /\ ret # None /\ call # None

FullWindow ==
    /\ call[1].alpha = -10000
    /\ call[1].beta = 10000
    /\ call[1].color = call[1].pos.stm

\* C1: a call with the window (-10000, 10000) and player_color the side to
\* move returns exactly the score of plain minimax of the same depth.
C1_PruningEquivalence ==
    (Returned /\ FullWindow) => ret[1] = PlainMinimax(call[1].pos, call[1].depth)

\* A full-window call has returned after a break skipped a legal move.
C1_Witness == Returned /\ FullWindow /\ skipped /\ pc = "search"

\* The text "<source square> <destination square>" of a move.
MoveText(m) == SquareName(m.source) \o " " \o SquareName(m.dest)

LegalMoves == {root.moves[j] : j \in 1..Len(root.moves)}

\* C2: on an Ongoing position the call returns, and the move kept and
\* returned is one of the position's legal moves.
C2_Legality ==
    /\ best_move # None => best_move[1].move \in LegalMoves
    /\ pc = "done" => \E m \in LegalMoves : result = Some(MoveText(m))
    /\ root.status = "Ongoing" => pc # "panicked"

C2_Witness ==
    /\ pc = "done"
    /\ depth = MaxDepth
    /\ best_move[1].move.promotion = "Queen"
    /\ result = Some("a2 a1")

\* The index of the kept move in the enumeration order.
ChosenIdx == CHOOSE j \in 1..Len(root.moves) : root.moves[j] = best_move[1].move

MateAvailable == \E j \in 1..Len(hist) : hist[j].mates

WinScore(side) == IF side = "White" THEN 10000 ELSE -10000

\* C3 as claimed: whenever some legal move checkmates at once, the move
\* returned checkmates at once, at every depth.
C3_MateInOnePlayed ==
    (pc = "done" /\ MateAvailable) => hist[ChosenIdx].mates

\* C3 as amended: whenever some legal move checkmates at once, the move
\* returned is the first whose search score is the winning sentinel; at
\* depth 0 and 1 that move checkmates at once.
C3_MateScorePlayed ==
    (pc = "done" /\ MateAvailable) =>
        /\ hist[ChosenIdx].eval = WinScore(root.stm)
        /\ \A k \in 1..(ChosenIdx - 1) : hist[k].eval # WinScore(root.stm)
        /\ depth <= 1 => hist[ChosenIdx].mates

C3_Witness ==
    /\ pc = "done"
    /\ MateAvailable
    /\ hist[ChosenIdx].mates
    /\ ChosenIdx > 1
    /\ depth = MaxDepth

\* C4: on a position that is not Ongoing the call ends in the panic of
\* unwrap and no move string is returned.
C4_FatalPrecondition ==
    root.status # "Ongoing" =>
        /\ result = None
        /\ best_move = None
        /\ pc \in {"loop", "panicked"}
        /\ pc = "loop" => (ENABLED Finish /\ ~ENABLED Candidate)

C4_Witness == pc = "panicked" /\ root.status = "Checkmate" /\ result = None

\* The first index, in enumeration order, of the best eval for the side.
FirstBest(h, side) ==
    LET evals == {h[j].eval : j \in 1..Len(h)}
        target == IF side = "White" THEN SetMax(evals) ELSE SetMin(evals)
    IN  CHOOSE j \in 1..Len(h) :
            /\ h[j].eval = target
            /\ \A k \in 1..(j - 1) : h[k].eval # target

\* C5: after every candidate the kept move is the first, in enumeration
\* order, of those with the maximal (White) or minimal (Black) eval so far,
\* and that move is the one returned.
C5_Selection ==
    hist # << >> =>
        LET j == FirstBest(hist, root.stm)
        IN  /\ best_move = Some([move |-> root.moves[j], eval |-> hist[j].eval])
            /\ pc = "done" => result = Some(MoveText(root.moves[j]))

\* White returns the second of three candidates, the third scoring the same.
C5_Witness ==
    /\ pc = "done"
    /\ root.stm = "White"
    /\ Len(hist) = 3
    /\ hist[1].eval < hist[2].eval
    /\ hist[2].eval = hist[3].eval
    /\ best_move[1].move = root.moves[2]

\* C6: the score of an Ongoing position lies strictly between -9999 and
\* 9999, so that only a Checkmate is scored +10000 or -10000.
C6_SentinelUnambiguous ==
    evaluated # None =>
        LET e == evaluated[1]
        IN  /\ e.pos.status = "Ongoing" => (-9999 < e.score /\ e.score < 9999)
            /\ e.score \in {-10000, 10000} => e.pos.status = "Checkmate"

\* An Ongoing position with promoted pieces: more than 39 points ahead.
C6_Witness ==
    /\ evaluated # None
    /\ evaluated[1].pos.status = "Ongoing"
    /\ piece_score(evaluated[1].pos) > 39
    /\ plies > 0

\* C7: a position that is not Ongoing scores 0 for a Stalemate, -10000 for
\* a Checkmate with White to move, +10000 with Black to move, whatever is on
\* the board.
C7_TerminalScoring ==
    (evaluated # None /\ evaluated[1].pos.status # "Ongoing") =>
        LET e == evaluated[1]
        IN  e.score = IF e.pos.status = "Stalemate" THEN 0
                      ELSE IF e.pos.stm = "White" THEN -10000 ELSE 10000

C7_Witness ==
    /\ evaluated # None
    /\ evaluated[1].pos.status = "Stalemate"
    /\ evaluated[1].score = 0
    /\ piece_score(evaluated[1].pos) > 0
    /\ central_control(evaluated[1].pos) > 0

\* C8: an invocation with depth 0, or on a position that is not Ongoing,
\* returns position_evaluation of its position at once, without enumerating
\* a move, whatever alpha, beta and player_color are.
C8_BaseCase ==
    [][(stack # << >> /\ ret = None
            /\ (Top.depth = 0 \/ Top.pos.status # "Ongoing"))
        => (stack' = Pop /\ ret' = Some(position_evaluation(Top.pos)))]_vars

\* A call at depth > 0 on a stalemate, with a narrowed window and the
\* player_color of the side not to move, has returned.
C8_Witness ==
    /\ Returned
    /\ pc = "direct"
    /\ call[1].depth > 0
    /\ call[1].pos.status = "Stalemate"
    /\ call[1].color # call[1].pos.stm
    /\ call[1].alpha > -10000
    /\ ret = Some(0)

\* The steps one invocation at depth d takes at most.
RECURSIVE Work(_)
Work(d) == IF d <= 0 THEN 1 ELSE MaxMoves * (Work(d - 1) + 2) + 1

\* The steps left to the invocation f, its pending callee not counted.
FrameWork(f) ==
    LET left == IF f.broke THEN 0 ELSE Len(f.pos.kids) - f.i
    IN  left * (Work(f.depth - 1) + 2) + 1

RECURSIVE StackWork(_)
StackWork(k) ==
    IF k = 0 THEN 0
    ELSE StackWork(k - 1) +
         (IF k = Len(stack) /\ ret = None
          THEN (IF stack[k].depth = 0 \/ stack[k].pos.status # "Ongoing"
                THEN 1 ELSE FrameWork(stack[k]))
          ELSE FrameWork(stack[k]) + 1)

\* The steps left to the call of get_best_move_minimax_alpha_beta.
Measure ==
    IF pc \in {"done", "panicked"} THEN 0
    ELSE (Len(root.moves) - idx) * (Work(depth) + 2) + 1
         + (IF pc = "search" THEN 1 + StackWork(Len(stack)) ELSE 0)

StackBounded ==
    /\ Len(stack) <= depth + 1
    /\ \A k \in 1..Len(stack) :
          /\ stack[k].depth = depth - (k - 1)
          /\ stack[k].depth >= 0
          /\ k > 1 => stack[k - 1].depth > 0

\* C9: at most depth + 1 invocations are active, each one level deeper with
\* a depth one less and never below 0, and every step brings the call
\* nearer to its end.
C9_BoundedRecursion ==
    [][StackBounded /\ StackBounded' /\ Measure' < Measure /\ Measure' >= 0]_vars

C9_Witness == depth = MaxDepth /\ Len(stack) = depth + 1 /\ Top.depth = 0

\* C10: in every active invocation player_color is the side to move of its
\* position and -10000 <= alpha < beta <= 10000.
C10_FrameInvariant ==
    \A k \in 1..Len(stack) :
        /\ stack[k].color = stack[k].pos.stm
        /\ -10000 <= stack[k].alpha
        /\ stack[k].alpha < stack[k].beta
        /\ stack[k].beta <= 10000

\* An innermost invocation whose window both ends have narrowed.
C10_Witness ==
    /\ pc = "search"
    /\ Len(stack) = MaxDepth + 1
    /\ Top.alpha > -10000
    /\ Top.beta < 10000

=============================================================================
